---- MODULE Spec2Model ----
(***************************************************************************)
(* Watershed partitioning of wave spectra: wavespectra/core/watershed3.py. *)
(*                                                                         *)
(*   SpecNeigh      ptnghb: the neighbour table, built bin by bin          *)
(*   Spec           specpart: the immersion watershed of one spectrum      *)
(*   SpecPartition  partition / nppart: the stack of partition grids       *)
(*                                                                         *)
(* Arrays are functions over 0..n-1 (numpy indexing), Python lists are     *)
(* sequences.  A spectrum is held flattened in row-major order, as         *)
(* spectrum.flatten() gives it: bin n = ik * nth + ith.                    *)
(***************************************************************************)
EXTENDS Integers, Sequences, FiniteSets, TLC

\* ---------------------------------------------------------------- bounds
\* largest number of bins nk * nth of a spectrum given to specpart
MaxBins == 6
\* energies of a spectrum are drawn from 0..MaxE
MaxE == 1
\* ihmax is drawn from 2..MaxIhmax
MaxIhmax == 2
\* shapes are drawn from (1..MaxNk) x (1..MaxNth)
MaxNk == 3
MaxNth == 5
\* partition() is called with swells in 0..MaxSwells
MaxSwells == 2
\* partition() is given spectra of at most MaxPartBins bins
MaxPartBins == 4
\* partition() is given a wind speed in 0..MaxWspd
MaxWspd == 1

VARIABLES
    pc,        \* position in the function being run
    nk, nth,   \* shape of the spectrum
    neigh,     \* ptnghb's table: bin -> list of neighbours
    nb,        \* ptnghb's loop variable n
    spectrum,  \* flattened input spectrum
    ihmax,     \* number of levels
    imi,       \* level of every bin
    ind,       \* bins sorted by elevation zp
    imo,       \* labels: -1 init, -2 mask, 0 watershed, > 0 basin
    imd,       \* distance of a bin to the labelled bins, within a level
    ic_label,  \* last basin id given
    iq1,       \* the queue of a level, rings separated by ifict_pixel
    mstart,    \* index in ind of the first bin of the level
    m,         \* loop variable of step 1.a, as left by the loop
    ih,        \* the level
    ic_dist,   \* the ring being processed
    kc,        \* index in ind of step 1.c's loop
    iq2,       \* worklist of the flood fill of a new basin
    npass,     \* relaxation passes begun
    nenq,      \* history: how often a bin was appended to iq1 in this level
    swells,    \* partition(): number of swells
    wspd,      \* partition(): wind speed
    dummy,     \* partition(): the list that sizes the 'part' axis
    out,       \* nppart's output array, slot -> grid (no grid until written)
    slot,      \* nppart's loop variable ind
    part       \* coordinate values of the 'part' axis

vars == <<pc, nk, nth, neigh, nb, spectrum, ihmax, imi, ind, imo, imd, ic_label,
          iq1, mstart, m, ih, ic_dist, kc, iq2, npass, nenq, swells, wspd,
          dummy, out, slot, part>>

specpartVars == <<spectrum, ihmax, imi, ind, imo, imd, ic_label, iq1, mstart, m,
                  ih, ic_dist, kc, iq2, npass, nenq>>
partitionVars == <<swells, wspd, dummy, out, slot, part>>

\* ---------------------------------------------------------------- helpers
Range(s) == {s[i] : i \in DOMAIN s}
Abs(x) == IF x < 0 THEN -x ELSE x
Bins(k, t) == 0 .. (k * t - 1)
SetMax(S) == CHOOSE x \in S : \A y \in S : y <= x
SetMin(S) == CHOOSE x \in S : \A y \in S : x <= y

\* ---------------------------------------------------------------- ptnghb
\* the eight appends of ptnghb's loop body, each a list of 0 or 1 bins
Bottom(n, k, t) == IF n \div t > 0 THEN <<n - t>> ELSE <<>>

Top(n, k, t) == IF n \div t < k - 1 THEN <<n + t>> ELSE <<>>

Left(n, k, t) == IF n % t > 0 THEN <<n - 1>> ELSE <<n - 1 + t>>

Right(n, k, t) == IF n % t < t - 1 THEN <<n + 1>> ELSE <<n + 1 - t>>

BottomLeft(n, k, t) ==
    IF n \div t > 0 /\ n % t > 0 THEN <<n - t - 1>>
    ELSE IF n \div t > 0 /\ n % t = 0 THEN <<n - t - 1 + t>>
    ELSE <<>>

TopLeft(n, k, t) ==
    IF n \div t < k - 1 /\ n % t > 0 THEN <<n + t - 1>>
    ELSE IF n \div t < k - 1 /\ n % t = 0 THEN <<n + t - 1 + t>>
    ELSE <<>>

BottomRight(n, k, t) ==
    IF n \div t > 0 /\ n % t < t - 1 THEN <<n - t + 1>>
    ELSE IF n \div t > 0 /\ n % t = t - 1 THEN <<n - t + 1 - t>>
    ELSE <<>>

\* mutant of TopRight: the wrapped link stays in the bin's own row
TopRightSameRow(n, k, t) ==
    IF n \div t < k - 1 /\ n % t < t - 1 THEN <<n + t + 1>>
    ELSE IF n \div t < k - 1 /\ n % t = t - 1 THEN <<n + 1 - t>>
    ELSE <<>>

TopRight(n, k, t) ==
    IF n \div t < k - 1 /\ n % t < t - 1 THEN <<n + t + 1>>
    ELSE IF n \div t < k - 1 /\ n % t = t - 1 THEN <<n + t + 1 - t>>
    ELSE <<>>

\* neigh[n] after the loop body ran for bin n
NeighOf(n, k, t) ==
    Bottom(n, k, t) \o Top(n, k, t) \o Left(n, k, t) \o Right(n, k, t)
    \o BottomLeft(n, k, t) \o TopLeft(n, k, t)
    \o BottomRight(n, k, t) \o TopRight(n, k, t)

\* the table ptnghb(nk, nth) returns
ptnghb(k, t) == [n \in Bins(k, t) |-> NeighOf(n, k, t)]

\* ---------------------------------------------------------------- SpecNeigh
NoSpecpart ==
    /\ spectrum = <<>> /\ ihmax = 0 /\ imi = <<>> /\ ind = <<>> /\ imo = <<>>
    /\ imd = <<>> /\ ic_label = 0 /\ iq1 = <<>> /\ mstart = 0 /\ m = 0 /\ ih = 0
    /\ ic_dist = 0 /\ kc = 0 /\ iq2 = {} /\ npass = 0 /\ nenq = <<>>

NoPartition ==
    /\ swells = 0 /\ wspd = 0 /\ dummy = <<>> /\ out = <<>> /\ slot = 0
    /\ part = <<>>

\* ptnghb called with a shape: neigh = [[] for _ in range(nspec)], n = 0
InitNeigh ==
    /\ nk \in 1..MaxNk
    /\ nth \in 1..MaxNth
    /\ neigh = [n \in Bins(nk, nth) |-> <<>>]
    /\ nb = 0
    /\ pc = "ptnghb"
    /\ NoSpecpart
    /\ NoPartition

\* one pass of ptnghb's loop over n
PtnghbStep ==
    /\ pc = "ptnghb"
    /\ nb < nk * nth
    /\ neigh' = [neigh EXCEPT ![nb] = NeighOf(nb, nk, nth)]
    /\ nb' = nb + 1
    /\ UNCHANGED <<pc, nk, nth>>
    /\ UNCHANGED specpartVars
    /\ UNCHANGED partitionVars

\* ptnghb returns neigh
PtnghbReturn ==
    /\ pc = "ptnghb"
    /\ nb = nk * nth
    /\ pc' = "returned"
    /\ UNCHANGED <<nk, nth, neigh, nb>>
    /\ UNCHANGED specpartVars
    /\ UNCHANGED partitionVars

NextNeigh == PtnghbStep \/ PtnghbReturn

SpecNeigh == InitNeigh /\ [][NextNeigh]_vars

\* ---------------------------------------------------------------- claims on ptnghb
\* ptnghb has returned its table
TableReturned == pc = "returned"
Row(n) == n \div nth
Col(n) == n % nth

\* C6: in the table ptnghb returns, b in neigh[a] implies a in neigh[b], and the
\* rows of a and b differ by at most one; a bin of column 0 is linked to the bin
\* of column nth-1 of its own row and of the rows below and above it.
C6_Symmetry ==
    TableReturned =>
        /\ \A a, b \in Bins(nk, nth) :
              b \in Range(neigh[a]) =>
                  /\ a \in Range(neigh[b])
                  /\ Abs(Row(a) - Row(b)) <= 1
        /\ \A a \in Bins(nk, nth) :
              Col(a) = 0 =>
                  /\ a + nth - 1 \in Range(neigh[a])
                  /\ Row(a) > 0 => a - 1 \in Range(neigh[a])
                  /\ Row(a) < nk - 1 => a + 2 * nth - 1 \in Range(neigh[a])

\* C6's case: a table with inner rows and at least three columns, whose wrapped
\* diagonal links exist and are not links of another kind as well.
C6_Witness ==
    /\ TableReturned
    /\ nk >= 3
    /\ nth >= 3
    /\ nth \in Range(neigh[2 * nth - 1])

\* C7 (as claimed): every list of the table has at most 8 entries, all of them
\* bins of the grid, holds no bin twice and does not hold its own bin.
C7_NeighbourSets ==
    TableReturned =>
        \A n \in Bins(nk, nth) :
            /\ Len(neigh[n]) <= 8
            /\ Range(neigh[n]) \subseteq Bins(nk, nth)
            /\ Cardinality(Range(neigh[n])) = Len(neigh[n])
            /\ n \notin Range(neigh[n])

\* ---------------------------------------------------------------- specpart
\* ifict_pixel, the token that separates the rings of the queue
ifict_pixel == -100
\* range(5): the passes of the boundary relaxation
RelaxPasses == 5
\* What astype(int) makes of NaN is left to the processor: the most negative
\* integer with the x86 conversion (any negative level stands for it, a level
\* is only ever compared with ih >= 0), 0 with the ARM one.
NanAsIntMin == -1
NanAsInt == {NanAsIntMin, 0}

\* zp = -spectrum.flatten() + zmax
Zp(sp) == LET zmax == SetMax(Range(sp)) IN [n \in DOMAIN sp |-> zmax - sp[n]]

\* np.around(a / b) for a >= 0, b > 0: halves go to the even integer
RoundHalfEven(a, b) ==
    LET q == a \div b
        r == a % b
    IN  IF 2 * r < b THEN q
        ELSE IF 2 * r > b THEN q + 1
        ELSE IF q % 2 = 0 THEN q ELSE q + 1

\* imi = np.around(zp * fact).astype(int), fact = (ihmax - 1) / (zmax - zmin).
\* With zmax = zmin, fact is inf, zp * fact is NaN in every bin.
Levels(sp, h) ==
    LET zmax == SetMax(Range(sp))
        zmin == SetMin(Range(sp))
    IN  IF zmax = zmin
        THEN {[n \in DOMAIN sp |-> c] : c \in NanAsInt}
        ELSE {[n \in DOMAIN sp |-> RoundHalfEven(Zp(sp)[n] * (h - 1), zmax - zmin)]}

\* ind = zp.argsort(): quicksort, which fixes no order among equal elevations
ArgSorts(sp) ==
    LET zp == Zp(sp)
    IN  {p \in Permutations(DOMAIN sp) :
            \A i \in DOMAIN sp : i + 1 \in DOMAIN sp => zp[p[i]] <= zp[p[i + 1]]}

\* specpart is entered: neigh, zp, imi, ind and step 0 (initializations)
Init ==
    /\ nk \in 1..MaxNk
    /\ nth \in 1..MaxNth
    /\ nk * nth <= MaxBins
    /\ neigh = ptnghb(nk, nth)
    /\ nb = nk * nth
    /\ spectrum \in [Bins(nk, nth) -> 0..MaxE]
    /\ ind \in ArgSorts(spectrum)
    /\ ihmax \in 2..MaxIhmax
    /\ imi \in Levels(spectrum, ihmax)
    /\ imo = [n \in Bins(nk, nth) |-> -1]
    /\ ic_label = 0
    /\ imd = [n \in Bins(nk, nth) |-> 0]
    /\ iq1 = <<>>
    /\ mstart = 0
    /\ m = -1
    /\ ih = 0
    /\ ic_dist = 0
    /\ kc = 0
    /\ iq2 = {}
    /\ npass = 0
    /\ nenq = [n \in Bins(nk, nth) |-> 0]
    /\ pc = "level"
    /\ NoPartition

\* any(imo[neigh[ip]] >= 0)
HasLabelledNeighbour(imoV, ip) ==
    \E i \in DOMAIN neigh[ip] : imoV[neigh[ip][i]] >= 0

\* step 1.a from index mm on; st = [imo, imd, iq1, nenq, m]
RECURSIVE FlagLoop(_, _)
FlagLoop(mm, st) ==
    LET ip == ind[mm]
    IN  IF imi[ip] # ih
        THEN [st EXCEPT !.m = mm]
        ELSE LET flagged == [st EXCEPT !.imo[ip] = -2, !.m = mm]
                 queued ==
                    IF HasLabelledNeighbour(flagged.imo, ip)
                    THEN [flagged EXCEPT !.imd[ip] = 1,
                                         !.iq1 = Append(@, ip),
                                         !.nenq[ip] = @ + 1]
                    ELSE flagged
             IN  IF mm + 1 < nk * nth THEN FlagLoop(mm + 1, queued) ELSE queued

\* a level begins: step 1.a, then ic_dist = 1 and the token is appended
LevelStart ==
    /\ pc = "level"
    /\ LET st == FlagLoop(mstart, [imo |-> imo, imd |-> imd, iq1 |-> iq1,
                                   nenq |-> [n \in Bins(nk, nth) |-> 0], m |-> m])
       IN  /\ imo' = st.imo
           /\ imd' = st.imd
           /\ iq1' = Append(st.iq1, ifict_pixel)
           /\ nenq' = st.nenq
           /\ m' = st.m
    /\ ic_dist' = 1
    /\ pc' = "queue"
    /\ UNCHANGED <<nk, nth, neigh, nb, spectrum, ihmax, imi, ind, ic_label,
                   mstart, ih, kc, iq2, npass>>
    /\ UNCHANGED partitionVars

\* imo[ipp] >= 0 and imd[ipp] < ic_dist
IsLabelled(imoV, imdV, ipp, dist) == imoV[ipp] >= 0 /\ imdV[ipp] < dist

\* mutant of IsMaskedUnqueued: the distance is not looked at
IsMaskedAnyDist(imoV, imdV, ipp) == imoV[ipp] = -2

\* imo[ipp] == -2 and imd[ipp] == 0
IsMaskedUnqueued(imoV, imdV, ipp) == imoV[ipp] = -2 /\ imdV[ipp] = 0

\* the label of ip after neighbour ipp, labelled, was inspected
Relabel(imoV, ip, ipp) ==
    IF imoV[ipp] > 0
    THEN IF imoV[ip] \in {-2, 0} THEN imoV[ipp]
         ELSE IF imoV[ip] # imoV[ipp] THEN 0
         ELSE imoV[ip]
    ELSE IF imoV[ip] = -2 THEN 0
    ELSE imoV[ip]

\* for ipp in neigh[ip], from the k-th on; st = [imo, imd, iq1, nenq]
RECURSIVE ProcessQueue(_, _, _, _)
ProcessQueue(ip, k, dist, st) ==
    IF k > Len(neigh[ip]) THEN st
    ELSE LET ipp == neigh[ip][k]
             nxt == IF IsLabelled(st.imo, st.imd, ipp, dist)
                    THEN [st EXCEPT !.imo[ip] = Relabel(st.imo, ip, ipp)]
                    ELSE IF IsMaskedUnqueued(st.imo, st.imd, ipp)
                    THEN [st EXCEPT !.imd[ipp] = dist + 1,
                                    !.iq1 = Append(@, ipp),
                                    !.nenq[ipp] = @ + 1]
                    ELSE st
         IN  ProcessQueue(ip, k + 1, dist, nxt)

\* the pop at the top of the loop gives the token and the queue is empty
QueueAtEnd == iq1 # <<>> /\ Head(iq1) = ifict_pixel /\ Tail(iq1) = <<>>
\* the pop at the top of the loop gives the token, a new ring begins
QueueAtRing == iq1 # <<>> /\ Head(iq1) = ifict_pixel /\ Tail(iq1) # <<>>
\* the bin the next pass of the loop processes, and in which ring
QueueBin == IF QueueAtRing THEN Head(Tail(iq1)) ELSE Head(iq1)
QueueRing == IF QueueAtRing THEN ic_dist + 1 ELSE ic_dist

\* step 1.b, the pass that ends the loop
DequeueEnd ==
    /\ pc = "queue"
    /\ QueueAtEnd
    /\ iq1' = <<>>
    /\ kc' = mstart
    /\ pc' = "basins"
    /\ UNCHANGED <<nk, nth, neigh, nb, spectrum, ihmax, imi, ind, imo, imd,
                   ic_label, mstart, m, ih, ic_dist, iq2, npass, nenq>>
    /\ UNCHANGED partitionVars

\* step 1.b, a pass that processes a bin
DequeueBin ==
    /\ pc = "queue"
    /\ iq1 # <<>>
    /\ ~QueueAtEnd
    /\ LET rest == IF QueueAtRing
                   THEN Tail(Append(Tail(iq1), ifict_pixel))
                   ELSE Tail(iq1)
           st == ProcessQueue(QueueBin, 1, QueueRing,
                              [imo |-> imo, imd |-> imd, iq1 |-> rest, nenq |-> nenq])
       IN  /\ imo' = st.imo
           /\ imd' = st.imd
           /\ iq1' = st.iq1
           /\ nenq' = st.nenq
    /\ ic_dist' = QueueRing
    /\ UNCHANGED <<pc, nk, nth, neigh, nb, spectrum, ihmax, imi, ind, ic_label,
                   mstart, m, ih, kc, iq2, npass>>
    /\ UNCHANGED partitionVars

\* index in ind, from kc on, of the first bin of ind[mstart:m] still masked;
\* m when there is none
RECURSIVE NextMasked(_)
NextMasked(j) ==
    IF j >= m THEN m
    ELSE IF imo[ind[j]] = -2 THEN j
    ELSE NextMasked(j + 1)

\* step 1.c, the loop over ind[mstart:m] up to the next bin that is still
\* masked, where a new basin begins; with none left the loop is over, mstart = m
\* and the next level begins.  imd is reset for every bin passed.
BasinScan ==
    /\ pc = "basins"
    /\ LET j == NextMasked(kc)
       IN  /\ imd' = [n \in DOMAIN imd |->
                        IF \E i \in kc..j : i < m /\ ind[i] = n THEN 0 ELSE imd[n]]
           /\ kc' = j
           /\ IF j < m
              THEN /\ ic_label' = ic_label + 1
                   /\ iq2' = {ind[j]}
                   /\ pc' = "fill"
                   /\ UNCHANGED <<mstart, ih>>
              ELSE /\ mstart' = m
                   /\ ih' = ih + 1
                   /\ pc' = IF ih + 1 < ihmax THEN "level" ELSE "relax"
                   /\ UNCHANGED <<ic_label, iq2>>
    /\ UNCHANGED <<nk, nth, neigh, nb, spectrum, ihmax, imi, ind, imo, iq1,
                   m, ic_dist, npass, nenq>>
    /\ UNCHANGED partitionVars

\* iqset = set([n for i in iq2 for n in neigh[i]])
NeighboursOf(S) == UNION {Range(neigh[i]) : i \in S}

\* step 1.c, one pass of 'while iq2'; an empty iq2 ends the loop
FillStep ==
    /\ pc = "fill"
    /\ iq2 # {}
    /\ imo' = [n \in DOMAIN imo |-> IF n \in iq2 THEN ic_label ELSE imo[n]]
    /\ iq2' = {i \in NeighboursOf(iq2) : imo'[i] = -2}
    /\ IF iq2' = {}
       THEN kc' = kc + 1 /\ pc' = "basins"
       ELSE UNCHANGED <<kc, pc>>
    /\ UNCHANGED <<nk, nth, neigh, nb, spectrum, ihmax, imi, ind, imd, ic_label,
                   iq1, mstart, m, ih, ic_dist, npass, nenq>>
    /\ UNCHANGED partitionVars

\* np.where(imo == 0)[0]
Watershed0 == {n \in DOMAIN imo : imo[n] = 0}
\* any(watershed0): some index in it is not 0
AnyWatershed0 == \E n \in Watershed0 : n # 0
\* jnl = [j for j in neigh[jl] if imo[j] != 0]
Jnl(jl) == SelectSeq(neigh[jl], LAMBDA j : imo[j] # 0)
\* abs(zp[jnl] - zp[jl]).argmin(): the first of the smallest
ArgMinDiff(jnl, jl) ==
    LET d(i) == Abs(Zp(spectrum)[jnl[i]] - Zp(spectrum)[jl])
    IN  CHOOSE i \in DOMAIN jnl :
            \A k \in DOMAIN jnl : d(i) < d(k) \/ (d(i) = d(k) /\ i <= k)
\* what the pass appends to newvals for jl
NewVal(jl) ==
    IF \E i \in DOMAIN Jnl(jl) : Jnl(jl)[i] # 0
    THEN imo[Jnl(jl)[ArgMinDiff(Jnl(jl), jl)]]
    ELSE 0

\* step 2, a pass that finds nothing to do and breaks
RelaxBreak ==
    /\ pc = "relax"
    /\ npass < RelaxPasses
    /\ ~AnyWatershed0
    /\ npass' = npass + 1
    /\ pc' = "done"
    /\ UNCHANGED <<nk, nth, neigh, nb, spectrum, ihmax, imi, ind, imo, imd,
                   ic_label, iq1, mstart, m, ih, ic_dist, kc, iq2, nenq>>
    /\ UNCHANGED partitionVars

\* step 2, a pass that replaces the watershed points
RelaxPass ==
    /\ pc = "relax"
    /\ npass < RelaxPasses
    /\ AnyWatershed0
    /\ imo' = [n \in DOMAIN imo |-> IF n \in Watershed0 THEN NewVal(n) ELSE imo[n]]
    /\ npass' = npass + 1
    /\ pc' = IF npass + 1 < RelaxPasses THEN "relax" ELSE "done"
    /\ UNCHANGED <<nk, nth, neigh, nb, spectrum, ihmax, imi, ind, imd,
                   ic_label, iq1, mstart, m, ih, ic_dist, kc, iq2, nenq>>
    /\ UNCHANGED partitionVars

Next ==
    \/ LevelStart
    \/ DequeueEnd
    \/ DequeueBin
    \/ BasinScan
    \/ FillStep
    \/ RelaxBreak
    \/ RelaxPass

Spec == Init /\ [][Next]_vars

\* ---------------------------------------------------------------- claims on specpart
\* specpart has returned: part_array is imo, reshaped
Returned == pc = "done"
\* all bins of the spectrum hold the same energy
ConstantGrid == Cardinality(Range(spectrum)) = 1
\* bins none of whose neighbours holds strictly more energy
LocalMaxima ==
    {n \in DOMAIN spectrum :
        \A j \in Range(ptnghb(nk, nth)[n]) : spectrum[j] <= spectrum[n]}

\* C1 (as claimed): when specpart returns, every bin of the label grid holds an
\* integer >= 0; none is left at -1 (unprocessed) or -2 (masked).
C1_LabelCoverage == Returned => \A n \in DOMAIN imo : imo[n] >= 0

\* C4 (as claimed): for a grid with exactly one local maximum, specpart creates
\* exactly one basin id and every bin of the returned grid carries it.
C4_SinglePeak ==
    (Returned /\ Cardinality(LocalMaxima) = 1)
        => /\ ic_label = 1
           /\ Cardinality(Range(imo) \ {0}) = 1
           /\ \A n \in DOMAIN imo : imo[n] = ic_label

\* C5 (as claimed): for a grid of one energy, specpart returns a label grid in
\* which all bins carry the same positive basin id.
C5_ConstantGrid ==
    (Returned /\ ConstantGrid)
        => \E id \in 1..ic_label : \A n \in DOMAIN imo : imo[n] = id

\* lexicographic order on tuples of naturals of one length
LexLess(a, b) ==
    \E i \in 1..Len(a) : a[i] < b[i] /\ \A j \in 1..(i - 1) : a[j] = b[j]

\* how many entries of the queue are bins
QueuedBins == Cardinality({i \in DOMAIN iq1 : iq1[i] # ifict_pixel})
\* what is left to do, largest first: levels, the steps of a level (1.a, 1.b,
\* 1.c), then within 1.b the bins to process and within 1.c the bins to scan,
\* the fill under way and the masked bins; in step 2 the passes left.
Remaining ==
    <<ihmax - ih,
      CASE pc = "level" -> 3 [] pc = "queue" -> 2 [] pc \in {"basins", "fill"} -> 1
        [] OTHER -> 0,
      CASE pc = "queue" ->
               2 * Cardinality({b \in DOMAIN imo : imo[b] = -2 /\ imd[b] = 0})
               + QueuedBins
        [] pc \in {"basins", "fill"} -> m - kc
        [] pc = "relax" -> RelaxPasses + 1 - npass
        [] OTHER -> 0,
      IF pc = "basins" THEN 1 ELSE 0,
      IF pc = "fill" THEN Cardinality({b \in DOMAIN imo : imo[b] = -2}) ELSE 0>>

\* a step of specpart can be taken: the guards of the actions of Next
CanStep ==
    \/ pc \in {"level", "basins"}
    \/ pc = "queue" /\ iq1 # <<>>
    \/ pc = "fill" /\ iq2 # {}
    \/ pc = "relax" /\ npass < RelaxPasses

\* C8, the part that holds in every state: the queue is not empty when it is
\* popped and holds the token once, no bin is appended to the queue twice in a
\* level, a step can be taken until specpart returns, and on return the level
\* loop has run ihmax times, the worklist is empty and at most 5 passes ran.
C8_Safe ==
    ~ConstantGrid =>
        /\ pc = "queue" =>
              /\ iq1 # <<>>
              /\ Cardinality({i \in DOMAIN iq1 : iq1[i] = ifict_pixel}) = 1
        /\ \A n \in DOMAIN nenq : nenq[n] <= 1
        /\ Returned \/ CanStep
        /\ Returned => (ih = ihmax /\ iq2 = {} /\ iq1 = <<>> /\ npass <= RelaxPasses)
        /\ LET r == Remaining IN \A i \in 1..Len(r) : r[i] >= 0

\* C8, the part about steps: every step leaves strictly less to do.
C8_Progress ==
    ~ConstantGrid => LET now == Remaining
                         next == Remaining'
                     IN  LexLess(next, now)

\* C8: for every grid with at least two distinct energies and ihmax > 1, specpart
\* terminates: what is left to do is a tuple of naturals that every step lowers,
\* a step can be taken until the function returns, the level loop runs exactly
\* ihmax times, each bin is enqueued at most once per level, the queue is never
\* popped while empty, the worklist empties and at most 5 passes run.
C8_Termination == []C8_Safe /\ [][C8_Progress]_vars

\* C8's case: a grid with two basins and a watershed point, returned after the
\* relaxation replaced the point.
C8_Witness ==
    /\ Returned
    /\ ~ConstantGrid
    /\ ic_label >= 2
    /\ npass >= 2

\* the positive basin ids of the neighbours of the bin about to be processed
\* that are labelled with a distance below the ring
CompetingIds ==
    {imo[j] : j \in {j \in Range(neigh[QueueBin]) : imo[j] > 0 /\ imd[j] < QueueRing}}

\* C9 (as claimed): a bin taken from the queue that has labelled neighbours of
\* smaller distance with two or more different positive basin ids is labelled 0
\* when its processing ends.
C9_Conflict ==
    [][(pc = "queue" /\ iq1 # <<>> /\ ~QueueAtEnd /\ Cardinality(CompetingIds) >= 2)
          => imo'[QueueBin] = 0]_vars

\* neighbours of b with a non-zero label
NonZeroNeighbours(b) == {j \in Range(neigh[b]) : imo[j] # 0}
\* labels of the non-zero neighbours of b nearest to it in elevation
ClosestLabels(b) ==
    LET zp == Zp(spectrum)
    IN  {imo[j] : j \in {j \in NonZeroNeighbours(b) :
                            \A k \in NonZeroNeighbours(b) :
                                Abs(zp[j] - zp[b]) <= Abs(zp[k] - zp[b])}}

\* C10 (as claimed): in each relaxation pass every bin labelled 0 that has a
\* neighbour with a non-zero label takes the label of the non-zero neighbour
\* nearest in elevation, from the labels as they were when the pass began; a bin
\* stays 0 only if no neighbour had a non-zero label.
C10_Relaxation ==
    [][(pc = "relax" /\ npass < RelaxPasses)
          => \A b \in DOMAIN imo :
                imo[b] = 0 =>
                    IF NonZeroNeighbours(b) # {}
                    THEN imo'[b] \in ClosestLabels(b)
                    ELSE imo'[b] = 0]_vars

\* ---------------------------------------------------------------- partition, nppart
\* partition(dset, wspd, wdir, dpt, swells, ...) is called on one spectrum
InitPartition ==
    /\ nk \in 1..MaxNk
    /\ nth \in 1..MaxNth
    /\ nk * nth <= MaxPartBins
    /\ spectrum \in [Bins(nk, nth) -> 0..MaxE]
    /\ swells \in 0..MaxSwells
    /\ wspd \in 0..MaxWspd
    /\ dummy = <<>>
    /\ out = <<>>
    /\ slot = 0
    /\ part = <<>>
    /\ pc = "partition"
    /\ neigh = <<>>
    /\ nb = 0
    /\ ihmax = 0 /\ imi = <<>> /\ ind = <<>> /\ imo = <<>> /\ imd = <<>>
    /\ ic_label = 0 /\ iq1 = <<>> /\ mstart = 0 /\ m = 0 /\ ih = 0 /\ ic_dist = 0
    /\ kc = 0 /\ iq2 = {} /\ npass = 0 /\ nenq = <<>>

\* dummy = (swells + 1) * [swells]
Dummy(sw) == [i \in 1..(sw + 1) |-> sw]

\* a slot of the output array that nppart has not written: no grid
Unwritten == <<>>

\* apply_ufunc calls nppart with an output array of len(dummy) slots, the
\* signature's p, whose memory nobody has written
PartitionCall ==
    /\ pc = "partition"
    /\ dummy' = Dummy(swells)
    /\ out' = [k \in 0..(Len(dummy') - 1) |-> Unwritten]
    /\ slot' = 0
    /\ pc' = "nppart"
    /\ UNCHANGED <<nk, nth, neigh, nb, swells, wspd, part>>
    /\ UNCHANGED specpartVars

\* mutant of NppartSlots: the loop stops one slot early
NppartSlotsShort(sw) == sw

\* range(swells + 1)
NppartSlots(sw) == sw + 1

\* nppart: out[ind, :, :] = spectrum
NppartStep ==
    /\ pc = "nppart"
    /\ slot < NppartSlots(swells)
    /\ out' = [out EXCEPT ![slot] = spectrum]
    /\ slot' = slot + 1
    /\ UNCHANGED <<pc, nk, nth, neigh, nb, swells, wspd, dummy, part>>
    /\ UNCHANGED specpartVars

\* nppart's loop is over
NppartReturn ==
    /\ pc = "nppart"
    /\ slot >= NppartSlots(swells)
    /\ pc' = "finalise"
    /\ UNCHANGED <<nk, nth, neigh, nb, swells, wspd, dummy, out, slot, part>>
    /\ UNCHANGED specpartVars

\* dsout["part"] = np.arange(swells + 1)
Finalise ==
    /\ pc = "finalise"
    /\ part' = [i \in 1..(swells + 1) |-> i - 1]
    /\ pc' = "stacked"
    /\ UNCHANGED <<nk, nth, neigh, nb, swells, wspd, dummy, out, slot>>
    /\ UNCHANGED specpartVars

NextPartition == PartitionCall \/ NppartStep \/ NppartReturn \/ Finalise

SpecPartition == InitPartition /\ [][NextPartition]_vars

\* ---------------------------------------------------------------- claims on partition
\* partition has returned the stack
Stacked == pc = "stacked"
\* a grid of the spectrum's shape with no energy
ZeroGrid == [n \in Bins(nk, nth) |-> 0]

\* C2: partition returns exactly swells + 1 grids, each written by nppart and of
\* the spectrum's shape, and labels them 0..swells, whatever the spectrum holds.
C2_StackSize ==
    Stacked =>
        /\ DOMAIN out = 0..swells
        /\ \A k \in DOMAIN out :
              out[k] # Unwritten /\ DOMAIN out[k] = Bins(nk, nth)
        /\ part = [i \in 1..(swells + 1) |-> i - 1]

\* C2's case: a stack of three slots returned for a spectrum with two peaks
C2_Witness ==
    /\ Stacked
    /\ swells = 2
    /\ Cardinality(LocalMaxima) >= 2
    /\ \E a, b \in LocalMaxima : a \notin Range(ptnghb(nk, nth)[b]) /\ a # b

\* C3 (as claimed): with swells >= 1, slots beyond the basins found are
\* all-zero grids (a spectrum has no more basins than energy peaks); for a
\* spectrum with a single peak and wind speed 0, slot 1 holds the spectrum and
\* slot 0 and slots 2..swells are all-zero.
C3_ZeroPadding ==
    (Stacked /\ swells >= 1) =>
        /\ \A k \in DOMAIN out : k > Cardinality(LocalMaxima) => out[k] = ZeroGrid
        /\ (Cardinality(LocalMaxima) = 1 /\ wspd = 0) =>
              /\ out[1] = spectrum
              /\ \A k \in DOMAIN out : k # 1 => out[k] = ZeroGrid

====
